---- MODULE Spec2Model ----
(***************************************************************************)
(* Model of src/entity_processor.py: the Illinois business entity scraper. *)
(* One run of scrape_illinois_business is a sequential state machine: the  *)
(* browser bootstrap (get_captcha_solved_cookies_and_headers, with the     *)
(* solver client solve_recaptcha_v2 called from inside it), the search     *)
(* request, parse_td_ids, the detail request and parse_business_details.   *)
(* Every blocking call to a collaborator (browser, solving service, target *)
(* site) is one action whose outcome is chosen by the environment.         *)
(***************************************************************************)
EXTENDS Integers, Sequences, FiniteSets, TLC

VARIABLES
    api_key,          \* environment variable SOLVECAPTCHA_API_KEY
    process,          \* the interpreter: "loading", "running", "exited"
    exit_code,        \* exit status of the process, -1 while it runs
    persisted,        \* the result file: "none", "written", "write_failed"
    text,             \* a value-cell text
    variant,          \* the same text with additional interior whitespace
    cleaned,          \* the cleanup of text and of variant, once computed
    file_number,      \* argument of scrape_illinois_business
    pc,               \* position of the run
    browser,          \* the SB() context: "unopened", "open", "closed"
    frame,            \* browser execution context: "top" or "challenge"
    inject,           \* Token-Inject: "none" (not run), "ok", "failed"
    sitekey,          \* value of the data-key attribute read from the frame
    submits,          \* number of POSTs to SOLVE_URL
    response_data,    \* local of solve_recaptcha_v2: the submission envelope
    result_data,      \* local of solve_recaptcha_v2: the last poll envelope
    attempts,         \* local of solve_recaptcha_v2
    polls,            \* number of GETs to RESULT_URL
    token,            \* value returned by solve_recaptcha_v2
    cookies,          \* first component of the bootstrap's return value
    headers,          \* second component of the bootstrap's return value
    response,         \* search response
    transaction_id,   \* local of scrape_illinois_business
    detail_response,  \* detail response
    result,           \* value returned by scrape_illinois_business
    failure,          \* the first failure of a collaborator or extraction
    trace,            \* the pipeline steps performed so far, in order
    sent,             \* the HTTP requests sent to the target site, in order
    saved             \* calls of save_failed_response, in order

vars == <<api_key, process, exit_code, persisted, text, variant, cleaned,
          file_number, pc, browser, frame, inject, sitekey, submits,
          response_data, result_data, attempts, polls, token, cookies, headers, response, transaction_id,
          detail_response, result, failure, trace, sent, saved>>

mainVars   == <<api_key, process, exit_code, persisted>>
textVars   == <<text, variant, cleaned>>
solverVars == <<submits, response_data, result_data, attempts, polls, token>>
pageVars   == <<frame, inject, sitekey>>
orchVars   == <<response, transaction_id, detail_response, result, trace,
                sent, saved>>

----------------------------------------------------------------------------
(* Bounds of the model *)

\* longest search-result page, counted in elements
MaxCells == 2

\* the solving service has the token ready within this many polls, or on
\* the last poll the loop allows, or never
ReadyEarly == 2

\* longest value-cell text, counted in characters
MaxText == 3

\* most whitespace characters added to a value-cell text
MaxInserted == 2

(* Program constants *)

max_attempts == 120

----------------------------------------------------------------------------
(* Python values *)

EmptyDict == [k \in {} |-> ""]

\* None, and a dict, as the two shapes a bootstrap return component can take
PyNone == [isNone |-> TRUE, d |-> EmptyDict]

PyDict(d) == [isNone |-> FALSE, d |-> d]

\* Python truthiness of None-or-dict: `not cookies` is True for None and {}
Truthy(v) == ~v.isNone /\ DOMAIN v.d # {}

\* a local that has not been assigned yet
Unbound == "<unbound>"

----------------------------------------------------------------------------
(* Inputs *)

\* os.getenv("SOLVECAPTCHA_API_KEY") when the variable is not set
NoApiKey == "<None>"

ApiKeys == {NoApiKey, "", "KEY"}

\* the value of cleaned before the cleanup has run
NotCleaned == <<>>

FileNumbers == {"09853537", "70001"}

\* sb.get_attribute returning None: the frame has no data-key attribute
NoSiteKey == "<None>"

SiteKeys == {NoSiteKey, "", "6Lc"}

Tokens == {"TOKEN123"}

\* sb.get_cookies(): a list of {name, value} entries
CookieLists ==
    { <<>>,
      << [name |-> "JSESSIONID", value |-> "A1"],
         [name |-> "JSESSIONID", value |-> "B2"] >> }

\* the mapping the header script returns (representative entries of the 15)
BrowserHeaders ==
    [k \in {"accept-language", "content-type", "origin", "referer"} |->
        CASE k = "accept-language" -> "en"
          [] k = "content-type"    -> "application/x-www-form-urlencoded"
          [] k = "origin"          -> "https://apps.ilsos.gov"
          [] k = "referer"         -> "https://apps.ilsos.gov/captcha"]

\* envelopes of the solving service: {status, request}
SubmitEnvelopes ==
    { [status |-> 1, request |-> "req-1"],
      [status |-> 0, request |-> "ERROR_WRONG_USER_KEY"] }

\* the polls, counted from 1, on which the service may answer ready
ReadyPolls == (1..ReadyEarly) \cup {max_attempts}

PollEnvelopes ==
    { [status |-> 1, request |-> t] : t \in Tokens }
    \cup { [status |-> 0, request |-> "CAPCHA_NOT_READY"],
           [status |-> 0, request |-> "ERROR_CAPTCHA_UNSOLVABLE"] }

\* the value of an envelope local before the call that assigns it
NoEnvelope == [status |-> 0, request |-> "<unassigned>"]

\* an element of the search page: its tag and its id attribute, if any
NoAttr == "<no attribute>"

Elements ==
    { [tag |-> "td",  id |-> NoAttr],
      [tag |-> "td",  id |-> ""],
      [tag |-> "td",  id |-> "txn-42"],
      [tag |-> "td",  id |-> "txn-7"] }

RECURSIVE SeqsUpTo(_, _)
SeqsUpTo(S, n) ==
    IF n = 0 THEN { <<>> }
    ELSE LET shorter == SeqsUpTo(S, n - 1)
         IN  shorter \cup { Append(s, e) : s \in shorter, e \in S }

SearchBodies == SeqsUpTo(Elements, MaxCells)

ErrorPage == <<>>

StatusCodes == {200, 503}

SearchResponses ==
    { [status_code |-> 200, text |-> b] : b \in SearchBodies }
    \cup { [status_code |-> s, text |-> ErrorPage] : s \in StatusCodes \ {200} }

NoResponse == [status_code |-> 0, text |-> <<>>]

----------------------------------------------------------------------------
(* Text: a string is a sequence of one-character strings; the children of *)
(* an HTML cell are a sequence of nodes, each a text node or a <br>.       *)

SP  == " "
TAB == "\t"
NL  == "\n"

\* the characters str.strip() removes and the pattern \s matches
IsSpace(c) == c \in {SP, TAB, NL}

TextNode(s) == [br |-> FALSE, s |-> s]

BrNode == [br |-> TRUE, s |-> <<>>]

RECURSIVE LStrip(_)
LStrip(s) ==
    IF s = <<>> THEN <<>>
    ELSE IF IsSpace(Head(s)) THEN LStrip(Tail(s)) ELSE s

RECURSIVE RStrip(_)
RStrip(s) ==
    IF s = <<>> THEN <<>>
    ELSE IF IsSpace(s[Len(s)]) THEN RStrip(SubSeq(s, 1, Len(s) - 1)) ELSE s

\* str.strip()
Strip(s) == RStrip(LStrip(s))

\* for br in cell.find_all('br'): br.replace_with('\n')
\* each <br> becomes a text node of its own holding one newline
ReplaceBr(nodes) ==
    [i \in DOMAIN nodes |->
        IF nodes[i].br THEN TextNode(<<NL>>) ELSE nodes[i]]

\* Tag.get_text(strip=True): every text node is stripped on its own, the
\* nodes that are empty after stripping are dropped, the rest are joined
\* with the empty separator; an element such as <br> has no text
RECURSIVE GetTextStrip(_)
GetTextStrip(nodes) ==
    IF nodes = <<>> THEN <<>>
    ELSE (IF Head(nodes).br THEN <<>> ELSE Strip(Head(nodes).s))
         \o GetTextStrip(Tail(nodes))

\* re.sub(r'[ \t]+', ' ', s)
RECURSIVE CollapseBlanks(_)
CollapseBlanks(s) ==
    IF s = <<>> THEN <<>>
    ELSE IF Head(s) \in {SP, TAB}
         THEN IF Len(s) > 1 /\ s[2] \in {SP, TAB}
              THEN CollapseBlanks(Tail(s))
              ELSE <<SP>> \o CollapseBlanks(Tail(s))
         ELSE <<Head(s)>> \o CollapseBlanks(Tail(s))

\* re.sub(r'\s+', ' ', s)
RECURSIVE CollapseSpace(_)
CollapseSpace(s) ==
    IF s = <<>> THEN <<>>
    ELSE IF IsSpace(Head(s))
         THEN IF Len(s) > 1 /\ IsSpace(s[2])
              THEN CollapseSpace(Tail(s))
              ELSE <<SP>> \o CollapseSpace(Tail(s))
         ELSE <<Head(s)>> \o CollapseSpace(Tail(s))

\* length of the longest prefix of s made of whitespace
RECURSIVE SpaceRun(_)
SpaceRun(s) ==
    IF s = <<>> \/ ~IsSpace(Head(s)) THEN 0 ELSE 1 + SpaceRun(Tail(s))

\* position of the last newline among the first n characters of s, 0 if none
RECURSIVE LastNewline(_, _)
LastNewline(s, n) ==
    IF n = 0 THEN 0
    ELSE IF s[n] = NL THEN n ELSE LastNewline(s, n - 1)

\* re.sub(r'\n\s*\n', '\n', s): leftmost matches, \s* greedy, not overlapping
RECURSIVE RemoveEmptyLines(_)
RemoveEmptyLines(s) ==
    IF s = <<>> THEN <<>>
    ELSE LET rest == Tail(s)
             j    == LastNewline(rest, SpaceRun(rest))
         IN  IF Head(s) = NL /\ j > 0
             THEN <<NL>> \o RemoveEmptyLines(SubSeq(rest, j + 1, Len(rest)))
             ELSE <<Head(s)>> \o RemoveEmptyLines(rest)

\* the cleanup of a value cell and of an address cell
CleanValue(nodes) ==
    Strip(RemoveEmptyLines(CollapseBlanks(GetTextStrip(ReplaceBr(nodes)))))

\* the cleanup of a label
CleanKey(nodes) == Strip(CollapseSpace(GetTextStrip(nodes)))

----------------------------------------------------------------------------
(* HTML extraction layer *)

\* an extraction that keeps the empty ids
RECURSIVE ParseTdIdsKeepingEmpty(_)
ParseTdIdsKeepingEmpty(html_content) ==
    IF html_content = <<>> THEN <<>>
    ELSE LET td == Head(html_content)
         IN  (IF td.tag = "td" /\ td.id # NoAttr
              THEN <<td.id>> ELSE <<>>)
             \o ParseTdIdsKeepingEmpty(Tail(html_content))

\* parse_td_ids: the ids of the td elements that carry an id attribute, in
\* document order, the empty ids left out
RECURSIVE parse_td_ids(_)
parse_td_ids(html_content) ==
    IF html_content = <<>> THEN <<>>
    ELSE LET td == Head(html_content)
         IN  (IF td.tag = "td" /\ td.id # NoAttr /\ td.id # ""
              THEN <<td.id>> ELSE <<>>)
             \o parse_td_ids(Tail(html_content))

\* A detail page:
\*   details_div: is there a div of class display-details
\*   rows:        its rows, each a sequence of col- columns; a column is
\*                [has_b, b, nodes]: whether it holds a <b>, the text nodes
\*                of that <b>, and the child nodes of the column
\*   tables:      the tables of the page in document order, each
\*                [aria, id, in_div, tbody, rows]: aria-describedby is
\*                sortManagers_info, id is sortManagers, the table lies in
\*                div#managers, it has a tbody, and the rows of that tbody,
\*                each a sequence of td cells (sequences of child nodes)
Col(has_b, b, nodes) == [has_b |-> has_b, b |-> b, nodes |-> nodes]

Txt(s) == << TextNode(s) >>

KeyCol(s) == Col(TRUE, Txt(s), Txt(s))

ValCol(nodes) == Col(FALSE, <<>>, nodes)

Table(aria, id, in_div, tbody, rows) ==
    [aria |-> aria, id |-> id, in_div |-> in_div, tbody |-> tbody,
     rows |-> rows]

Page(details_div, rows, tables) ==
    [details_div |-> details_div, rows |-> rows, tables |-> tables]

\* soup.find(...): index of the first table the selector matches, 0 if none;
\* the selector is named by the field that records it: aria, id or in_div
FirstTable(tables, selector) ==
    IF \E i \in DOMAIN tables : tables[i][selector]
    THEN CHOOSE i \in DOMAIN tables :
            tables[i][selector] /\ \A j \in 1..(i - 1) : ~tables[j][selector]
    ELSE 0

\* a chain that tries the id selector before the aria-describedby selector
FindManagersTableIdFirst(tables) ==
    IF FirstTable(tables, "id") # 0 THEN FirstTable(tables, "id")
    ELSE IF FirstTable(tables, "aria") # 0 THEN FirstTable(tables, "aria")
    ELSE FirstTable(tables, "in_div")

\* the selector chain of parse_managers_table: 0 when no selector matches
FindManagersTable(tables) ==
    IF FirstTable(tables, "aria") # 0 THEN FirstTable(tables, "aria")
    ELSE IF FirstTable(tables, "id") # 0 THEN FirstTable(tables, "id")
    ELSE FirstTable(tables, "in_div")

\* the manager record of one row, as a sequence of zero or one records
ManagerOfRow(tds) ==
    IF Len(tds) >= 2
    THEN LET manager_name == GetTextStrip(tds[1])
             address      == CleanValue(tds[2])
         IN  IF manager_name # <<>> /\ address # <<>>
             THEN << [name |-> manager_name, address |-> address] >>
             ELSE <<>>
    ELSE <<>>

RECURSIVE ManagersOfRows(_)
ManagersOfRows(rows) ==
    IF rows = <<>> THEN <<>>
    ELSE ManagerOfRow(Head(rows)) \o ManagersOfRows(Tail(rows))

parse_managers_table(html_content) ==
    LET i == FindManagersTable(html_content.tables)
    IN  IF i = 0 THEN <<>>
        ELSE IF html_content.tables[i].tbody
             THEN ManagersOfRows(html_content.tables[i].rows)
             ELSE <<>>

\* the (key, value) pairs of one row, in column order
RECURSIVE PairsOfCols(_)
PairsOfCols(cols) ==
    IF Len(cols) < 2 THEN <<>>
    ELSE LET key_col   == cols[1]
             value_col == cols[2]
             key       == CleanKey(key_col.b)
             value     == CleanValue(value_col.nodes)
         IN  (IF key_col.has_b /\ key # <<>> /\ value # <<>>
              THEN << <<key, value>> >> ELSE <<>>)
             \o PairsOfCols(SubSeq(cols, 3, Len(cols)))

RECURSIVE PairsOfRows(_)
PairsOfRows(rows) ==
    IF rows = <<>> THEN <<>>
    ELSE PairsOfCols(Head(rows)) \o PairsOfRows(Tail(rows))

\* a mapping in which the first pair of a key wins
DictOfPairsFirstWins(pairs) ==
    [k \in { pairs[i][1] : i \in DOMAIN pairs } |->
        pairs[CHOOSE i \in DOMAIN pairs :
                /\ pairs[i][1] = k
                /\ \A j \in DOMAIN pairs : pairs[j][1] = k => i <= j][2]]

\* business_data[key] = value for each pair in order: the last pair wins
DictOfPairs(pairs) ==
    [k \in { pairs[i][1] : i \in DOMAIN pairs } |->
        pairs[CHOOSE i \in DOMAIN pairs :
                /\ pairs[i][1] = k
                /\ \A j \in DOMAIN pairs : pairs[j][1] = k => j <= i][2]]

\* the key "managers"
ManagersKey == <<"m", "a", "n", "a", "g", "e", "r", "s">>

\* business_data["managers"] = managers
WithManagers(business_data, managers) ==
    [k \in DOMAIN business_data \cup {ManagersKey} |->
        IF k = ManagersKey THEN managers ELSE business_data[k]]

\* an attachment that does not look at the sequence
AttachAlways(managers) == TRUE

\* if managers: (an empty list is falsy)
AttachManagers(managers) == managers # <<>>

parse_business_details(html_content) ==
    IF ~html_content.details_div THEN EmptyDict
    ELSE LET business_data == DictOfPairs(PairsOfRows(html_content.rows))
             managers      == parse_managers_table(html_content)
         IN  IF AttachManagers(managers)
             THEN WithManagers(business_data, managers)
             ELSE business_data

\* the detail pages the target site answers with
StatusRow == << KeyCol(<<"S", "t">>), ValCol(<< TextNode(<<"A">>), BrNode, TextNode(<<SP, "V">>) >>) >>

TypeRow == << KeyCol(<<"S", "t">>), ValCol(Txt(<<"L", "L", "C">>)),
              KeyCol(<<"T">>) >>

BlankValueRow == << KeyCol(<<"S", "t">>), ValCol(<< TextNode(<<SP>>), BrNode >>) >>

PlainRow == << ValCol(Txt(<<"S", "t">>)), ValCol(Txt(<<"A">>)) >>

JaneRow == << Txt(<<"J">>), << TextNode(<<"1", SP, SP, "M">>), BrNode, TextNode(<<"I", "L">>) >> >>

NamelessRow == << Txt(<<SP>>), Txt(<<"1">>) >>

\* a field row whose <b> is blank: the label is empty after cleanup
EmptyLabelRow == << KeyCol(<<SP>>), ValCol(Txt(<<"x">>)) >>

\* a field row whose label is the word managers
ManagersLabelRow == << KeyCol(ManagersKey), ValCol(Txt(<<"x">>)) >>

ManagersTable == Table(TRUE, TRUE, TRUE, TRUE, <<JaneRow, NamelessRow>>)

EmptyManagersTable == Table(FALSE, TRUE, FALSE, TRUE, <<NamelessRow>>)

\* a table no selector matches
PlainTable == Table(FALSE, FALSE, FALSE, TRUE, <<JaneRow>>)

\* a table only the id selector finds
IdTable == Table(FALSE, TRUE, FALSE, TRUE, <<JaneRow>>)

\* a table in div#managers without a usable row
DivEmptyTable == Table(FALSE, FALSE, TRUE, TRUE, <<NamelessRow>>)

\* a table only the div#managers fallback finds
DivTable == Table(FALSE, FALSE, TRUE, TRUE, <<JaneRow>>)

DetailBodies ==
    { Page(FALSE, <<>>, <<>>),
      Page(FALSE, <<>>, <<ManagersTable>>),
      Page(TRUE, <<>>, <<>>),
      Page(TRUE, <<StatusRow>>, <<>>),
      Page(TRUE, <<StatusRow, TypeRow>>, <<EmptyManagersTable>>),
      Page(TRUE, <<BlankValueRow>>, <<>>),
      Page(TRUE, <<StatusRow, BlankValueRow>>, <<>>),
      Page(TRUE, <<PlainRow>>, <<EmptyManagersTable>>),
      Page(TRUE, <<>>, <<ManagersTable>>),
      Page(TRUE, <<ManagersLabelRow>>, <<EmptyManagersTable>>),
      Page(TRUE, <<ManagersLabelRow>>, <<ManagersTable>>),
      Page(TRUE, <<StatusRow>>, <<EmptyManagersTable, ManagersTable>>),
      Page(TRUE, <<StatusRow>>, <<PlainTable>>),
      Page(TRUE, <<StatusRow>>, <<PlainTable, DivTable>>),
      Page(TRUE, <<StatusRow>>, <<DivEmptyTable, IdTable>>),
      Page(TRUE, <<StatusRow, EmptyLabelRow>>, <<>>),
      Page(TRUE, <<EmptyLabelRow>>, <<>>) }

ErrorDetailPage == Page(FALSE, <<>>, <<>>)

DetailResponses ==
    { [status_code |-> 200, text |-> b] : b \in DetailBodies }
    \cup { [status_code |-> s, text |-> ErrorDetailPage] :
             s \in StatusCodes \ {200} }

NoDetailResponse == [status_code |-> 0, text |-> ErrorDetailPage]

----------------------------------------------------------------------------
(* Results of scrape_illinois_business *)

NoResult == [status |-> "pending"]

ErrorResult(fn, msg) ==
    [file_number |-> fn, status |-> "error", error |-> msg]

\* an error result that forgets the identifier already resolved
ErrorResultDroppingId(fn, tid, msg) == ErrorResult(fn, msg)

ErrorResultWithId(fn, tid, msg) ==
    [file_number |-> fn, transaction_id |-> tid, status |-> "error",
     error |-> msg]

SuccessResult(fn, tid, data) ==
    [file_number |-> fn, transaction_id |-> tid, status |-> "success",
     data |-> data]

----------------------------------------------------------------------------
(* Decisions of the code *)

\* a context manager that leaves the browser as it is
SBExitLeak(b) == b

\* leaving the `with SB(...) as sb:` block, by return or by exception
SBExit(b) == "closed"

\* if not API_KEY: None and the empty string are falsy
ApiKeyPresent(k) == k \notin {NoApiKey, ""}

\* a site-key test that lets an absent or empty key through
SitekeyAlwaysPresent(k) == TRUE

\* if sitekey: (None and the empty string are falsy)
SitekeyPresent(k) == k \notin {NoSiteKey, ""}

\* Token-Inject treated as fatal: the handler returning to the orchestrator
AfterInjectFailureAbort == "check_credentials"

\* except Exception as e: print(...) -- control falls through to Settle
AfterInjectFailure == "harvest_cookies"

\* a submission check that lets every envelope through
SubmitAlwaysAccepted(envelope) == TRUE

\* if response_data.get('status') != 1: raise
SubmitAccepted(envelope) == envelope.status = 1

\* the loop test off by one: while attempts <= max_attempts
LoopContinuesInclusive(a) == a <= max_attempts

\* while attempts < max_attempts
LoopContinues(a) == a < max_attempts

\* if result_data.get('status') == 1: return result_data['request']
PollReady(envelope) == envelope.status = 1

\* a test for None only, which lets empty mappings through
CredentialsNoneOnly(c, h) == c.isNone \/ h.isNone

\* the test with `and` in place of `or`
CredentialsBothMissing(c, h) == ~Truthy(c) /\ ~Truthy(h)

\* if not cookies or not headers
CredentialsMissing(c, h) == ~Truthy(c) \/ ~Truthy(h)

\* the last id in place of the first: td_ids[-1]
PickLastId(td_ids) == td_ids[Len(td_ids)]

\* transaction_id = td_ids[0]
PickTransactionId(td_ids) == td_ids[1]

\* the emptiness test left out
RecordNeverEmpty(business_details) == FALSE

\* if not business_details
RecordIsEmpty(business_details) == DOMAIN business_details = {}

\* for cookie in browser_cookies: cookies[cookie['name']] = cookie['value']
CookieDict(browser_cookies) ==
    [n \in { browser_cookies[i].name : i \in DOMAIN browser_cookies } |->
        browser_cookies[CHOOSE i \in DOMAIN browser_cookies :
            /\ browser_cookies[i].name = n
            /\ \A j \in DOMAIN browser_cookies :
                  browser_cookies[j].name = n => j <= i].value]

\* the header script reads window.location of the current execution context
HarvestedHeaders(fr) ==
    [k \in DOMAIN BrowserHeaders |->
        IF fr = "challenge" /\ k \in {"origin", "referer"}
        THEN "https://challenge.frame"
        ELSE BrowserHeaders[k]]

\* an update that leaves the harvested referer in place
RequestHeadersKeepReferer(h) ==
    [k \in DOMAIN h \cup {"content-type", "priority"} |->
        CASE k = "content-type" -> "application/x-www-form-urlencoded"
          [] k = "priority"     -> "u=0, i"
          [] OTHER              -> h[k]]

\* headers = headers.copy(); headers.update({...})
RequestHeaders(h) ==
    [k \in DOMAIN h \cup {"content-type", "priority", "referer"} |->
        CASE k = "content-type" -> "application/x-www-form-urlencoded"
          [] k = "priority"     -> "u=0, i"
          [] k = "referer"      ->
                "https://apps.ilsos.gov/businessentitysearch/businessentitysearch"
          [] OTHER              -> h[k]]

SearchRequestOf(fn, c, h) ==
    [method |-> "search", value |-> fn, cookies |-> c,
     headers |-> RequestHeaders(h)]

DetailRequestOf(tid, c, h) ==
    [method |-> "getDetails", value |-> tid, cookies |-> c,
     headers |-> RequestHeaders(h)]

\* what save_failed_response is handed: the request type and the response
SavedEntry(request_type, resp) ==
    [request_type |-> request_type, response |-> resp]

\* an orchestrator that returns the Error result without the diagnostic call
SaveNothing(log, request_type, resp) == log

\* save_failed_response(file_number, response, request_type): the call never
\* raises, its own failures are caught and printed
SaveFailedResponse(log, request_type, resp) ==
    Append(log, SavedEntry(request_type, resp))

----------------------------------------------------------------------------
(* Initial state: scrape_illinois_business(file_number) has been called *)

\* the locals of a run of scrape_illinois_business that has not started
Fresh ==
    /\ pc = "start"
    /\ browser = "unopened"
    /\ frame = "top"
    /\ inject = "none"
    /\ sitekey = Unbound
    /\ submits = 0
    /\ response_data = NoEnvelope
    /\ result_data = NoEnvelope
    /\ attempts = 0
    /\ polls = 0
    /\ token = Unbound
    /\ cookies = PyNone
    /\ headers = PyNone
    /\ response = NoResponse
    /\ transaction_id = Unbound
    /\ detail_response = NoDetailResponse
    /\ result = NoResult
    /\ failure = "none"
    /\ trace = <<>>
    /\ sent = <<>>
    /\ saved = <<>>

\* no cleanup under study
NoText ==
    /\ text = <<>>
    /\ variant = <<>>
    /\ cleaned = NotCleaned

\* the process before the module body has run
Loading ==
    /\ process = "loading"
    /\ exit_code = -1
    /\ persisted = "none"

Init ==
    /\ api_key \in ApiKeys
    /\ file_number \in FileNumbers
    /\ Loading
    /\ Fresh
    /\ NoText

----------------------------------------------------------------------------
(* get_captcha_solved_cookies_and_headers *)

\* `return None, None` from either except handler or from the no-sitekey
\* branch: the with block is left and control is back in the orchestrator
BootstrapReturnNone(cause) ==
    /\ cookies' = PyNone
    /\ headers' = PyNone
    /\ browser' = SBExit(browser)
    /\ failure' = cause
    /\ pc' = "check_credentials"

\* an exception no handler catches leaves the with block and then
\* scrape_illinois_business, which has no handler around the bootstrap call
BootstrapRaise(cause) ==
    /\ browser' = SBExit(browser)
    /\ failure' = cause
    /\ pc' = "raised"
    /\ UNCHANGED <<cookies, headers>>

\* result = scrape_illinois_business(file_number) in main, then
\* with SB(uc=True, locale="en") as sb
StartBrowser ==
    /\ process = "running"
    /\ pc = "start"
    /\ trace' = Append(trace, "bootstrap")
    /\ \E ok \in BOOLEAN :
         IF ok
         THEN /\ browser' = "open"
              /\ pc' = "navigate"
              /\ UNCHANGED failure
         ELSE /\ failure' = "browser_start"
              /\ pc' = "raised"
              /\ UNCHANGED browser
    /\ UNCHANGED <<mainVars, textVars, file_number, pageVars, solverVars, cookies, headers,
                   response, transaction_id, detail_response, result, sent,
                   saved>>

\* sb.activate_cdp_mode(url, ...); sb.sleep(3): before the try block
Navigate ==
    /\ pc = "navigate"
    /\ \E ok \in BOOLEAN :
         IF ok
         THEN /\ pc' = "wait_input"
              /\ UNCHANGED <<browser, failure, cookies, headers>>
         ELSE BootstrapRaise("navigation")
    /\ UNCHANGED <<mainVars, textVars, file_number, pageVars, solverVars, orchVars>>

\* sb.wait_for_element_present('input[type="text"]', timeout=10)
WaitSearchInput ==
    /\ pc = "wait_input"
    /\ \E ok \in BOOLEAN :
         IF ok
         THEN /\ pc' = "submit_form"
              /\ UNCHANGED <<browser, failure, cookies, headers>>
         ELSE BootstrapReturnNone("input_wait")
    /\ UNCHANGED <<mainVars, textVars, file_number, pageVars, solverVars, orchVars>>

\* sb.click, sb.type, sb.click, sb.sleep(3)
SubmitForm ==
    /\ pc = "submit_form"
    /\ \E ok \in BOOLEAN :
         IF ok
         THEN /\ pc' = "challenge_detect"
              /\ UNCHANGED <<browser, failure, cookies, headers>>
         ELSE BootstrapReturnNone("form_submit")
    /\ UNCHANGED <<mainVars, textVars, file_number, pageVars, solverVars, orchVars>>

\* sb.wait_for_element_present('iframe[title="Challenge Content"]', timeout=10)
\* the wait raises when the frame does not appear within the timeout
ChallengeDetect ==
    /\ pc = "challenge_detect"
    /\ \E present \in BOOLEAN :
         IF present
         THEN /\ pc' = "read_sitekey"
              /\ UNCHANGED <<browser, failure, cookies, headers>>
         ELSE BootstrapReturnNone("challenge_timeout")
    /\ UNCHANGED <<mainVars, textVars, file_number, pageVars, solverVars, orchVars>>

\* sitekey = sb.get_attribute(...), which may raise; if sitekey:
\* current_url = sb.get_current_url(), which may raise with sitekey bound,
\* then the solver; else: return None, None
ReadSitekey ==
    /\ pc = "read_sitekey"
    /\ \/ /\ BootstrapReturnNone("sitekey_read")
          /\ UNCHANGED sitekey
       \/ \E k \in SiteKeys :
            /\ sitekey' = k
            /\ IF SitekeyPresent(k)
               THEN \/ /\ pc' = "solver_submit"
                       /\ UNCHANGED <<browser, failure, cookies, headers>>
                    \/ BootstrapReturnNone("sitekey_read")
               ELSE BootstrapReturnNone("no_sitekey")
    /\ UNCHANGED <<mainVars, textVars, file_number, frame, inject, solverVars, orchVars>>

----------------------------------------------------------------------------
(* solve_recaptcha_v2, called from the bootstrap; whatever it raises is    *)
(* re-raised by its own handler and caught by the bootstrap's inner        *)
(* `except Exception as captcha_error`, which returns None, None           *)

\* response = requests.post(SOLVE_URL, ...); response_data = response.json()
SolverSubmit ==
    /\ pc = "solver_submit"
    /\ submits' = submits + 1
    /\ \/ /\ BootstrapReturnNone("submit_fault")
          /\ UNCHANGED <<response_data, attempts>>
       \/ \E envelope \in SubmitEnvelopes :
            /\ response_data' = envelope
            /\ IF ~SubmitAccepted(envelope)
               THEN /\ BootstrapReturnNone("submit_rejected")
                    /\ UNCHANGED attempts
               ELSE /\ attempts' = 0
                    /\ IF LoopContinues(0)
                       THEN /\ pc' = "solver_poll"
                            /\ UNCHANGED <<browser, failure, cookies, headers>>
                       ELSE BootstrapReturnNone("solve_timeout")
    /\ UNCHANGED <<mainVars, textVars, file_number, pageVars, result_data, polls, token, orchVars>>

\* one iteration of the while loop: time.sleep(1), requests.get(RESULT_URL),
\* then either the return of the token or attempts += 1 and the loop test
SolverPoll ==
    /\ pc = "solver_poll"
    /\ polls' = polls + 1
    /\ \/ /\ BootstrapReturnNone("poll_fault")
          /\ UNCHANGED <<result_data, attempts, token>>
       \/ \E envelope \in PollEnvelopes :
            /\ envelope.status = 1 => polls + 1 \in ReadyPolls
            /\ result_data' = envelope
            /\ IF PollReady(envelope)
               THEN /\ token' = envelope.request
                    /\ pc' = "switch_to_frame"
                    /\ UNCHANGED <<attempts, browser, failure, cookies,
                                   headers>>
               ELSE /\ attempts' = attempts + 1
                    /\ UNCHANGED token
                    /\ IF LoopContinues(attempts + 1)
                       THEN UNCHANGED <<pc, browser, failure, cookies,
                                        headers>>
                       ELSE BootstrapReturnNone("solve_timeout")
    /\ UNCHANGED <<mainVars, textVars, file_number, pageVars, submits, response_data, orchVars>>

----------------------------------------------------------------------------
(* Token-Inject: the inner try block; its handler only prints *)

\* sb.switch_to_frame('iframe[title="Challenge Content"]')
SwitchToFrame ==
    /\ pc = "switch_to_frame"
    /\ \E ok \in BOOLEAN :
         IF ok
         THEN /\ frame' = "challenge"
              /\ pc' = "inject_token"
              /\ UNCHANGED inject
         ELSE /\ inject' = "failed"
              /\ pc' = AfterInjectFailure
              /\ UNCHANGED frame
    /\ UNCHANGED <<mainVars, textVars, file_number, browser, sitekey, solverVars, cookies,
                   headers, failure, orchVars>>

\* sb.execute_script(js_script)
InjectToken ==
    /\ pc = "inject_token"
    /\ \E ok \in BOOLEAN :
         IF ok
         THEN /\ pc' = "switch_to_default"
              /\ UNCHANGED inject
         ELSE /\ inject' = "failed"
              /\ pc' = AfterInjectFailure
    /\ UNCHANGED <<mainVars, textVars, file_number, browser, frame, sitekey, solverVars, cookies,
                   headers, failure, orchVars>>

\* sb.switch_to_default_content()
SwitchToDefault ==
    /\ pc = "switch_to_default"
    /\ \E ok \in BOOLEAN :
         IF ok
         THEN /\ frame' = "top"
              /\ inject' = "ok"
              /\ pc' = "harvest_cookies"
         ELSE /\ inject' = "failed"
              /\ pc' = AfterInjectFailure
              /\ UNCHANGED frame
    /\ UNCHANGED <<mainVars, textVars, file_number, browser, sitekey, solverVars, cookies,
                   headers, failure, orchVars>>

----------------------------------------------------------------------------
(* Settle and Harvest *)

\* sb.sleep(5); browser_cookies = sb.get_cookies(); the loop filling cookies
HarvestCookies ==
    /\ pc = "harvest_cookies"
    /\ \/ BootstrapReturnNone("harvest")
       \/ \E browser_cookies \in CookieLists :
            /\ cookies' = PyDict(CookieDict(browser_cookies))
            /\ pc' = "harvest_headers"
            /\ UNCHANGED <<browser, failure, headers>>
    /\ UNCHANGED <<mainVars, textVars, file_number, pageVars, solverVars, orchVars>>

\* headers = sb.execute_script(headers_script); return cookies, headers
HarvestHeaders ==
    /\ pc = "harvest_headers"
    /\ \/ BootstrapReturnNone("harvest")
       \/ /\ headers' = PyDict(HarvestedHeaders(frame))
          /\ browser' = SBExit(browser)
          /\ pc' = "check_credentials"
          /\ UNCHANGED <<cookies, failure>>
    /\ UNCHANGED <<mainVars, textVars, file_number, pageVars, solverVars, orchVars>>

----------------------------------------------------------------------------
(* scrape_illinois_business after the bootstrap has returned *)

Return(r) ==
    /\ result' = r
    /\ pc' = "returned"

\* if not cookies or not headers: return {... "error": "Failed to solve ..."}
CheckCredentials ==
    /\ pc = "check_credentials"
    /\ IF CredentialsMissing(cookies, headers)
       THEN Return(ErrorResult(file_number,
                "Failed to solve captcha and extract cookies/headers"))
       ELSE /\ pc' = "search"
            /\ UNCHANGED result
    /\ UNCHANGED <<mainVars, textVars, file_number, browser, pageVars, solverVars, cookies,
                   headers, response, transaction_id, detail_response,
                   failure, trace, sent, saved>>

\* Steps 2 and 3: make_illinois_search_request, the status test,
\* parse_td_ids and the choice of the transaction id
SearchRequest ==
    /\ pc = "search"
    /\ sent' = Append(sent, SearchRequestOf(file_number, cookies.d, headers.d))
    /\ \/ /\ Return(ErrorResult(file_number,
                 "Search request timed out after 30 seconds"))
          /\ failure' = "search_timeout"
          /\ trace' = Append(trace, "search")
          /\ UNCHANGED <<response, transaction_id, saved>>
       \/ /\ Return(ErrorResult(file_number,
                 "Search request failed: connection error"))
          /\ failure' = "search_fault"
          /\ trace' = Append(trace, "search")
          /\ UNCHANGED <<response, transaction_id, saved>>
       \/ \E r \in SearchResponses :
            /\ response' = r
            /\ IF r.status_code # 200
               THEN /\ saved' = SaveFailedResponse(saved, "search_request", r)
                    /\ Return(ErrorResult(file_number,
                          "Search request failed with status: "
                              \o ToString(r.status_code)))
                    /\ failure' = "search_status"
                    /\ trace' = Append(trace, "search")
                    /\ UNCHANGED transaction_id
               ELSE LET td_ids == parse_td_ids(r.text)
                    IN  /\ trace' = trace \o <<"search", "parse_td_ids">>
                        /\ IF td_ids = <<>>
                           THEN /\ saved' = SaveFailedResponse(saved,
                                        "search_parsing", r)
                                /\ Return(ErrorResult(file_number,
                                      "No transaction IDs found in search results"))
                                /\ failure' = "no_ids"
                                /\ UNCHANGED transaction_id
                           ELSE /\ transaction_id' = PickTransactionId(td_ids)
                                /\ pc' = "detail"
                                /\ UNCHANGED <<result, failure, saved>>
    /\ UNCHANGED <<mainVars, textVars, file_number, browser, pageVars, solverVars, cookies,
                   headers, detail_response>>

\* Steps 4 to 6: make_illinois_detail_request, the status test,
\* parse_business_details and the result
DetailRequest ==
    /\ pc = "detail"
    /\ sent' = Append(sent,
                      DetailRequestOf(transaction_id, cookies.d, headers.d))
    /\ \/ /\ Return(ErrorResultWithId(file_number, transaction_id,
                 "Detail request timed out after 30 seconds"))
          /\ failure' = "detail_timeout"
          /\ trace' = Append(trace, "detail")
          /\ UNCHANGED <<detail_response, saved>>
       \/ /\ Return(ErrorResultWithId(file_number, transaction_id,
                 "Detail request failed: connection error"))
          /\ failure' = "detail_fault"
          /\ trace' = Append(trace, "detail")
          /\ UNCHANGED <<detail_response, saved>>
       \/ \E r \in DetailResponses :
            /\ detail_response' = r
            /\ IF r.status_code # 200
               THEN /\ saved' = SaveFailedResponse(saved, "detail_request", r)
                    /\ Return(ErrorResultWithId(file_number, transaction_id,
                          "Detail request failed with status: "
                              \o ToString(r.status_code)))
                    /\ failure' = "detail_status"
                    /\ trace' = Append(trace, "detail")
               ELSE LET business_details == parse_business_details(r.text)
                    IN  /\ trace' = trace \o <<"detail", "parse_business_details">>
                        /\ IF RecordIsEmpty(business_details)
                           THEN /\ saved' = SaveFailedResponse(saved,
                                        "detail_parsing", r)
                                /\ Return(ErrorResultWithId(file_number,
                                      transaction_id,
                                      "No business details found in response"))
                                /\ failure' = "empty_record"
                           ELSE /\ Return(SuccessResult(file_number,
                                      transaction_id, business_details))
                                /\ UNCHANGED <<failure, saved>>
    /\ UNCHANGED <<mainVars, textVars, file_number, browser, pageVars, solverVars, cookies,
                   headers, response, transaction_id>>

----------------------------------------------------------------------------

\* the module body: API_KEY = os.getenv(...); if not API_KEY: raise ValueError
LoadModule ==
    /\ process = "loading"
    /\ IF ApiKeyPresent(api_key)
       THEN /\ process' = "running"
            /\ UNCHANGED exit_code
       ELSE /\ process' = "exited"
            /\ exit_code' = 1   \* uncaught ValueError
    /\ UNCHANGED <<api_key, persisted, textVars, file_number, pc, browser,
                   pageVars, solverVars, cookies, headers, failure, orchVars>>

\* main after the call: final_data is built, then one try holds the write of
\* the file and the prints that follow it; whatever raises in that try, the
\* write or a later print, is caught and answered with sys.exit(1)
PersistResult ==
    /\ process = "running"
    /\ pc = "returned"
    /\ process' = "exited"
    /\ \/ /\ persisted' = "written"
          /\ exit_code' = 0
       \/ /\ persisted' = "write_failed"
          /\ exit_code' = 1
       \/ /\ persisted' = "written"    \* a print after the write raised
          /\ exit_code' = 1
    /\ UNCHANGED <<api_key, textVars, file_number, pc, browser,
                   pageVars, solverVars, cookies, headers, failure, orchVars>>

\* an exception that left scrape_illinois_business: main has no handler
\* around the call, the interpreter prints the traceback and exits
Unwind ==
    /\ process = "running"
    /\ pc = "raised"
    /\ process' = "exited"
    /\ exit_code' = 1   \* uncaught exception
    /\ UNCHANGED <<api_key, persisted, textVars, file_number, pc, browser,
                   pageVars, solverVars, cookies, headers, failure, orchVars>>

\* the steps of scrape_illinois_business
ScrapeStep ==
    \/ StartBrowser
    \/ Navigate
    \/ WaitSearchInput
    \/ SubmitForm
    \/ ChallengeDetect
    \/ ReadSitekey
    \/ SolverSubmit
    \/ SolverPoll
    \/ SwitchToFrame
    \/ InjectToken
    \/ SwitchToDefault
    \/ HarvestCookies
    \/ HarvestHeaders
    \/ CheckCredentials
    \/ SearchRequest
    \/ DetailRequest

Next ==
    \/ LoadModule
    \/ ScrapeStep
    \/ PersistResult
    \/ Unwind

Spec == Init /\ [][Next]_vars

----------------------------------------------------------------------------
(* The value cleanup of parse_business_details on its own *)

Chars == {"a", SP, TAB, NL}

Texts == SeqsUpTo(Chars, MaxText)

\* s with character c put between its positions i and i + 1
InsertAt(s, i, c) == SubSeq(s, 1, i) \o <<c>> \o SubSeq(s, i + 1, Len(s))

\* lines 341 to 345 on a value cell that holds the one text node s
CleanText(s) == CleanValue(Txt(s))

InitCleanup ==
    /\ api_key = "KEY"
    /\ file_number = "09853537"
    /\ Loading
    /\ Fresh
    /\ text \in Texts
    /\ variant = text
    /\ cleaned = NotCleaned

\* one more space or tab inside the text, next to whitespace that is there
\* already (a space, a tab or a line break)
InsertBlank ==
    /\ cleaned = NotCleaned
    /\ Len(variant) < Len(text) + MaxInserted
    /\ \E i \in 1..(Len(variant) - 1), c \in {SP, TAB} :
         /\ IsSpace(variant[i]) \/ IsSpace(variant[i + 1])
         /\ variant' = InsertAt(variant, i, c)
    /\ UNCHANGED <<mainVars, text, cleaned, file_number, pc, browser,
                   pageVars, solverVars, cookies, headers, failure, orchVars>>

\* one more blank line inside the text: a line break next to a line break
InsertBlankLine ==
    /\ cleaned = NotCleaned
    /\ Len(variant) < Len(text) + MaxInserted
    /\ \E i \in 1..(Len(variant) - 1) :
         /\ variant[i] = NL \/ variant[i + 1] = NL
         /\ variant' = InsertAt(variant, i, NL)
    /\ UNCHANGED <<mainVars, text, cleaned, file_number, pc, browser,
                   pageVars, solverVars, cookies, headers, failure, orchVars>>

\* the cleanup applied to both texts and to its own outputs
CleanBoth ==
    /\ cleaned = NotCleaned
    /\ cleaned' = [text      |-> CleanText(text),
                   variant   |-> CleanText(variant),
                   again     |-> CleanText(CleanText(variant))]
    /\ UNCHANGED <<mainVars, text, variant, file_number, pc, browser,
                   pageVars, solverVars, cookies, headers, failure, orchVars>>

NextCleanup ==
    \/ InsertBlank
    \/ InsertBlankLine
    \/ CleanBoth

CleanupSpec == InitCleanup /\ [][NextCleanup]_vars

----------------------------------------------------------------------------
(* Properties *)

IsPrefix(s, t) == Len(s) <= Len(t) /\ SubSeq(t, 1, Len(s)) = s

BootstrapLeft == pc \in {"check_credentials", "search", "detail",
                         "returned", "raised"}

\* C1: every failure in the bootstrapper, in a request or in an extraction
\* ends the run with an Error result, and no exception leaves
\* scrape_illinois_business.
C1_EveryFailureBecomesErrorResult ==
    /\ pc # "raised"
    /\ (pc = "returned" /\ failure # "none") => result.status = "error"

\* C2: when the challenge frame does not appear within the timeout the
\* bootstrap does not fail: it returns harvested cookies and headers and the
\* orchestrator goes on to send the search request.
C2_NoChallengeGoesToHarvest ==
    (failure = "challenge_timeout" /\ BootstrapLeft) =>
        /\ ~cookies.isNone
        /\ ~headers.isNone
        /\ pc = "returned" => Len(sent) >= 1

PipelineOrder ==
    <<"bootstrap", "search", "parse_td_ids", "detail",
      "parse_business_details">>

\* C3: one run makes at most one solver submission, one search request and
\* one detail request, in the order bootstrap, search, transaction-id
\* extraction, detail, record extraction; a step is taken only when every
\* earlier step produced usable data, and after a failure no step follows.
C3_OneAttemptPerStepInOrder ==
    /\ submits <= 1
    /\ submits = 1 => Len(trace) >= 1
    /\ IsPrefix(trace, PipelineOrder)
    /\ Len(sent) <= 2
    /\ Len(sent) >= 1 => sent[1].method = "search" /\ Len(trace) >= 2
    /\ Len(sent) = 2 => sent[2].method = "getDetails" /\ Len(trace) >= 4
    /\ Len(trace) >= 2 => Truthy(cookies) /\ Truthy(headers)
    /\ Len(trace) >= 3 => response.status_code = 200
    /\ Len(trace) >= 4 =>
          \E i \in DOMAIN response.text :
              /\ response.text[i].tag = "td"
              /\ response.text[i].id \notin {NoAttr, ""}
    /\ Len(trace) >= 5 => detail_response.status_code = 200
    /\ failure # "none" => pc \in {"check_credentials", "returned", "raised"}
    /\ pc = "search" => Len(sent) = 0
    /\ pc = "detail" => Len(sent) = 1

C3_Witness ==
    /\ pc = "returned"
    /\ result.status = "success"
    /\ submits = 1
    /\ Len(sent) = 2
    /\ trace = PipelineOrder

\* the positions of the td elements of a page that carry an id attribute
TdWithId(html) ==
    { i \in DOMAIN html : html[i].tag = "td" /\ html[i].id # NoAttr }

\* the positions of the td elements of a page that carry a non-empty id
TdWithNonEmptyId(html) == { i \in TdWithId(html) : html[i].id # "" }

Least(S) == CHOOSE i \in S : \A j \in S : i <= j

\* C4 as stated: a transaction id exists only after a 200 search response
\* holding a td with an id, the detail request carries that id, and the
\* transaction_id of a Success result is the id of the first td that has an
\* id attribute.
C4_SuccessIdIsFirstTdId ==
    /\ transaction_id # Unbound =>
          response.status_code = 200 /\ TdWithId(response.text) # {}
    /\ Len(sent) = 2 => sent[2].value = transaction_id
    /\ result.status = "success" =>
          result.transaction_id =
              response.text[Least(TdWithId(response.text))].id

\* C4 amended: as C4, with the transaction id being the first non-empty td
\* id of the search response, in document order.
C4_SuccessIdIsFirstNonEmptyTdId ==
    /\ transaction_id # Unbound =>
          /\ response.status_code = 200
          /\ TdWithNonEmptyId(response.text) # {}
          /\ transaction_id =
                response.text[Least(TdWithNonEmptyId(response.text))].id
    /\ Len(sent) = 2 => sent[2].value = transaction_id
    /\ result.status = "success" =>
          /\ TdWithNonEmptyId(response.text) # {}
          /\ result.transaction_id =
                response.text[Least(TdWithNonEmptyId(response.text))].id

C4_Witness ==
    /\ result.status = "success"
    /\ Len(response.text) = 2
    /\ response.text[1].id = ""
    /\ result.transaction_id = response.text[2].id

\* C5: Success is returned only for a 200 detail response with a non-empty
\* record; a 200 detail response whose extraction is empty ends the run in
\* Error 'No business details found in response'.
C5_SuccessOnlyWithNonEmptyRecord ==
    /\ result.status = "success" =>
          /\ detail_response.status_code = 200
          /\ DOMAIN result.data # {}
    /\ (pc = "returned" /\ detail_response.status_code = 200
            /\ DOMAIN parse_business_details(detail_response.text) = {}) =>
          /\ result.status = "error"
          /\ result.error = "No business details found in response"

C5_Witness ==
    /\ pc = "returned"
    /\ detail_response.status_code = 200
    /\ detail_response.text.details_div
    /\ detail_response.text.rows # <<>>
    /\ result.status = "error"
    /\ result.error = "No business details found in response"

LateFailures ==
    {"detail_timeout", "detail_fault", "detail_status", "empty_record"}

\* C6: an Error result produced after the transaction id was resolved
\* carries file_number and that transaction_id; an Error result produced
\* before carries file_number and no transaction_id.
C6_ErrorCarriesResolvedIdentifiers ==
    result.status = "error" =>
        /\ result.file_number = file_number
        /\ IF failure \in LateFailures
           THEN /\ transaction_id # Unbound
                /\ "transaction_id" \in DOMAIN result
                /\ result.transaction_id = transaction_id
           ELSE /\ transaction_id = Unbound
                /\ "transaction_id" \notin DOMAIN result

C6_Witness ==
    /\ result.status = "error"
    /\ failure = "detail_status"
    /\ "transaction_id" \in DOMAIN result
    /\ result.transaction_id = "txn-7"

\* C7: the browser context is closed on every exit path of the bootstrap;
\* whenever the orchestrator is about to send a request or has ended, no
\* browser context is open.
C7_BrowserClosedOutsideBootstrap ==
    BootstrapLeft => browser # "open"

C7_Witness ==
    /\ pc = "search"
    /\ browser = "closed"
    /\ inject = "failed"

\* C8: after an accepted submission the solver polls at most 120 times; a
\* ready answer on poll k+1 after k not-ready answers returns that poll's
\* token after exactly k+1 polls and no poll follows; without a ready
\* answer the timeout is raised after exactly 120 polls.
C8_PollCeiling ==
    /\ polls <= 120
    /\ pc = "solver_poll" => polls = attempts /\ attempts < 120
    /\ token # Unbound =>
          /\ polls = attempts + 1
          /\ result_data.status = 1
          /\ token = result_data.request
          /\ pc # "solver_poll"
    /\ failure = "solve_timeout" =>
          /\ polls = 120
          /\ token = Unbound
          /\ pc # "solver_poll"

C8_Witness ==
    /\ token = "TOKEN123"
    /\ polls = 120
    /\ attempts = 119

\* an envelope that is neither ready nor 'not ready'
IsErrorEnvelope(envelope) ==
    envelope.status # 1 /\ envelope.request = "ERROR_CAPTCHA_UNSOLVABLE"

\* C9: a poll answered with an error envelope makes the solver fail at that
\* poll with a rejection that is not the timeout, and no poll follows.
C9_ErrorEnvelopeRejects ==
    IsErrorEnvelope(result_data) =>
        /\ pc # "solver_poll"
        /\ failure \notin {"none", "solve_timeout"}

\* C10: a submission answered with a status other than 1 makes the solver
\* fail at once: no poll, no second submission, and the bootstrap and the
\* run end in an Error result.
C10_RejectedSubmissionIsFatal ==
    (response_data # NoEnvelope /\ response_data.status # 1) =>
        /\ polls = 0
        /\ submits = 1
        /\ token = Unbound
        /\ pc \in {"check_credentials", "returned"}
        /\ cookies.isNone /\ headers.isNone
        /\ sent = <<>>
        /\ pc = "returned" => result.status = "error"

C10_Witness ==
    /\ response_data.request = "ERROR_WRONG_USER_KEY"
    /\ pc = "returned"
    /\ result.status = "error"

\* C11: a challenge frame whose site key is absent or empty makes the
\* bootstrap fail without a solver call and without a harvest, and the run
\* ends in an Error result with no search request.
C11_NoSiteKeyIsFatal ==
    sitekey \in {NoSiteKey, ""} =>
        /\ submits = 0
        /\ polls = 0
        /\ token = Unbound
        /\ inject = "none"
        /\ cookies.isNone /\ headers.isNone
        /\ pc \in {"check_credentials", "returned"}
        /\ sent = <<>>
        /\ pc = "returned" => result.status = "error"

C11_Witness ==
    /\ sitekey = NoSiteKey
    /\ pc = "returned"
    /\ result.status = "error"
    /\ browser = "closed"

\* C12: a failure of the switch into the frame, of the injection script or
\* of the switch back does not abort the bootstrap: Settle and Harvest
\* follow, and unless Harvest itself fails the bootstrap returns the
\* harvested cookies and headers.
C12_InjectFailureIsNotFatal ==
    inject = "failed" =>
        /\ pc \in {"harvest_cookies", "harvest_headers", "check_credentials",
                   "search", "detail", "returned"}
        /\ failure # "harvest" /\ BootstrapLeft =>
              /\ ~cookies.isNone
              /\ ~headers.isNone
              /\ headers.d = HarvestedHeaders(frame)

C12_Witness ==
    /\ inject = "failed"
    /\ frame = "challenge"
    /\ pc = "search"
    /\ Truthy(cookies)
    /\ Truthy(headers)

\* the failing response and the request type the diagnostic sink is owed for
\* each cause named by C13
OwedEntry ==
    CASE failure = "search_status" -> SavedEntry("search_request", response)
      [] failure = "no_ids"        -> SavedEntry("search_parsing", response)
      [] failure = "detail_status" ->
             SavedEntry("detail_request", detail_response)
      [] failure = "empty_record"  ->
             SavedEntry("detail_parsing", detail_response)

\* C13: a non-200 search or detail response reaches the orchestrator as a
\* value (the run returns, it does not raise), and every Error result caused
\* by a non-200 status, by an empty id list or by an empty record comes with
\* the failing response handed to save_failed_response.
C13_FailingBodyIsSavedBeforeError ==
    /\ response # NoResponse /\ response.status_code # 200 =>
          /\ pc = "returned"
          /\ failure = "search_status"
          /\ result.status = "error"
    /\ detail_response # NoDetailResponse
         /\ detail_response.status_code # 200 =>
          /\ pc = "returned"
          /\ failure = "detail_status"
          /\ result.status = "error"
    /\ failure \in {"search_status", "no_ids", "detail_status",
                    "empty_record"} =>
          /\ result.status = "error"
          /\ saved = <<OwedEntry>>

C13_Witness ==
    /\ failure = "detail_status"
    /\ detail_response.status_code = 503
    /\ result.status = "error"
    /\ saved = <<[request_type |-> "detail_request",
                  response |-> detail_response]>>

\* C14: a 200 search response without a td of non-empty id yields the Error
\* result "No transaction IDs found in search results" after the extraction
\* step, and no detail request is sent.
C14_NoIdsIsError ==
    /\ response # NoResponse
    /\ response.status_code = 200
    /\ TdWithNonEmptyId(response.text) = {}
    =>
    /\ pc = "returned"
    /\ result = [file_number |-> file_number, status |-> "error",
                 error |-> "No transaction IDs found in search results"]
    /\ trace = <<"bootstrap", "search", "parse_td_ids">>
    /\ Len(sent) = 1
    /\ transaction_id = Unbound
    /\ detail_response = NoDetailResponse

C14_Witness ==
    /\ response # NoResponse
    /\ response.status_code = 200
    /\ TdWithId(response.text) # {}
    /\ TdWithNonEmptyId(response.text) = {}
    /\ result.status = "error"
    /\ result.error = "No transaction IDs found in search results"

StatusKey == <<"S", "t">>

\* C15 as stated: a <br> inside a value cell becomes a newline of the
\* extracted value; the row (<b>St</b>, "A<br> V") yields St -> "A\nV".
C15_BrBecomesNewlineInValue ==
    /\ pc = "returned"
    /\ result.status = "success"
    /\ detail_response.text.rows = <<StatusRow>>
    =>
    /\ StatusKey \in DOMAIN result.data
    /\ result.data[StatusKey] = <<"A", NL, "V">>

\* the managers table parse_managers_table selects on the detail page
SelectedTable ==
    detail_response.text.tables[FindManagersTable(detail_response.text.tables)]

\* C16 as stated: each row with a non-empty name and address yields one
\* record in row order, a <br> of the address cell becoming a newline, and a
\* row with an empty name or address yields none; the rows
\* ("J", "1  M<br>IL"), (" ", "1") yield [{name "J", address "1 M\nIL"}].
C16_ManagerAddressKeepsLineBreaks ==
    /\ pc = "returned"
    /\ result.status = "success"
    /\ FindManagersTable(detail_response.text.tables) # 0
    /\ SelectedTable = ManagersTable
    =>
    /\ ManagersKey \in DOMAIN result.data
    /\ result.data[ManagersKey] =
          << [name |-> <<"J">>,
              address |-> <<"1", SP, "M", NL, "I", "L">>] >>

\* the positions <<row, column>> of the label columns of the details rows:
\* the odd columns that have a right neighbour and hold a <b>
LabelPositions(rows) ==
    { <<i, j>> \in (DOMAIN rows) \X (1..(2 * MaxCells)) :
        /\ j % 2 = 1
        /\ j + 1 <= Len(rows[i])
        /\ rows[i][j].has_b }

LabelAt(rows, p) == CleanKey(rows[p[1]][p[2]].b)

ValueAt(rows, p) == CleanValue(rows[p[1]][p[2] + 1].nodes)

\* the positions whose label and value are both non-empty after cleanup
Contributing(rows) ==
    { p \in LabelPositions(rows) :
        LabelAt(rows, p) # <<>> /\ ValueAt(rows, p) # <<>> }

\* document order of two positions
Before(p, q) == p[1] < q[1] \/ (p[1] = q[1] /\ p[2] <= q[2])

\* the entry k of the record is the cell text v; an entry that is the list
\* of manager records is no cell text
EntryIsText(data, k, v, managers) ==
    IF k = ManagersKey /\ managers # <<>>
    THEN data[k] # managers /\ data[k] = v
    ELSE data[k] = v

\* C20 as stated: the record holds, under each label, exactly the pairs
\* whose label and value are non-empty after cleanup, one entry per label,
\* with the value of the last such pair in document order.
C20_LastPairWinsForEveryLabel ==
    pc = "returned" /\ result.status = "success" =>
        LET rows     == detail_response.text.rows
            data     == result.data
            managers == parse_managers_table(detail_response.text)
        IN  /\ \A k \in DOMAIN data \ {ManagersKey} :
                  \E p \in Contributing(rows) : LabelAt(rows, p) = k
            /\ \A p \in Contributing(rows) :
                  (\A q \in Contributing(rows) :
                      LabelAt(rows, q) = LabelAt(rows, p) => Before(q, p))
                  => /\ LabelAt(rows, p) \in DOMAIN data
                     /\ EntryIsText(data, LabelAt(rows, p),
                                    ValueAt(rows, p), managers)

\* C20 amended: the same for every label but managers; the entry managers
\* is the sequence of manager records when parse_managers_table produced
\* one, whatever field rows carry that label, and otherwise follows the rule
\* of the other labels.
C20_LastNonEmptyPairWins ==
    pc = "returned" /\ result.status = "success" =>
        LET rows     == detail_response.text.rows
            data     == result.data
            managers == parse_managers_table(detail_response.text)
        IN  /\ DOMAIN data \ {ManagersKey} =
                  { LabelAt(rows, p) : p \in Contributing(rows) }
                      \ {ManagersKey}
            /\ <<>> \notin DOMAIN data
            /\ \A p \in Contributing(rows) :
                  /\ \A q \in Contributing(rows) :
                        LabelAt(rows, q) = LabelAt(rows, p) => Before(q, p)
                  /\ LabelAt(rows, p) # ManagersKey \/ managers = <<>>
                  => /\ LabelAt(rows, p) \in DOMAIN data
                     /\ data[LabelAt(rows, p)] = ValueAt(rows, p)
                     /\ ValueAt(rows, p) # <<>>
            /\ managers # <<>> =>
                  /\ ManagersKey \in DOMAIN data
                  /\ data[ManagersKey] = managers
            /\ managers = <<>> /\ ManagersKey \in DOMAIN data =>
                  \E p \in Contributing(rows) :
                      LabelAt(rows, p) = ManagersKey

C20_Witness ==
    /\ pc = "returned"
    /\ result.status = "success"
    /\ detail_response.text.rows = <<StatusRow, TypeRow>>
    /\ result.data[StatusKey] = <<"L", "L", "C">>

\* the runs of C20 in which a pair is left out: a blank value after a kept
\* pair of the same label, and a blank label
C20_BlankValueSkipped ==
    /\ pc = "returned"
    /\ result.status = "success"
    /\ detail_response.text.rows = <<StatusRow, BlankValueRow>>
    /\ result.data[StatusKey] = <<"A", "V">>

C20_BlankLabelSkipped ==
    /\ pc = "returned"
    /\ result.status = "success"
    /\ detail_response.text.rows = <<StatusRow, EmptyLabelRow>>
    /\ DOMAIN result.data = {StatusKey}

\* the run of C22 in which a table of div#managers precedes the table the
\* id selector finds
C22_IdBeforeDivReached ==
    /\ pc = "returned"
    /\ result.status = "success"
    /\ detail_response.text.tables = <<DivEmptyTable, IdTable>>
    /\ ManagersKey \in DOMAIN result.data

\* C17 as stated: two value-cell texts that differ only by additional
\* interior spaces, tabs or blank lines have the same cleanup, and the
\* cleanup of a cleanup output is that output.
C17_CleanupIgnoresAddedWhitespace ==
    cleaned # NotCleaned =>
        /\ cleaned.variant = cleaned.text
        /\ cleaned.again = cleaned.variant

\* the part of C17 that the code keeps: the cleanup is idempotent
CleanupIdempotent ==
    cleaned # NotCleaned => cleaned.again = cleaned.variant

\* C18 as stated: a run of scrape_illinois_business in which every blocking
\* call has come back stops with one result record, Success or Error: once
\* the function has been entered and no step of it is left to take, it has
\* returned and its result is a Success or an Error record.
C18_EveryRunEndsWithOneResult ==
    (trace # <<>> /\ ~ENABLED ScrapeStep) =>
        /\ pc = "returned"
        /\ result # NoResult
        /\ result.status \in {"success", "error"}

\* C19 as stated: the exit code is non-zero only when the write of the
\* result file failed; every other ended process has exit code zero and a
\* persisted result record.
C19_NonZeroExitOnlyOnWriteFailure ==
    process = "exited" =>
        \/ exit_code # 0 /\ persisted = "write_failed"
        \/ exit_code = 0 /\ persisted = "written"

\* C21 as stated: the record has a managers key if and only if
\* parse_managers_table produced at least one manager record.
C21_ManagersKeyIffManagers ==
    pc = "returned" /\ result.status = "success" =>
        (ManagersKey \in DOMAIN result.data
            <=> parse_managers_table(detail_response.text) # <<>>)

\* C21 amended: when parse_managers_table produced at least one record the
\* managers entry of the record is that sequence; when it produced none the
\* record has a managers key only if a field row is labelled managers; a
\* page with the one field row St and no manager rows gives a Success whose
\* data is that field alone.
C21_ManagersAttachedOnlyWhenProduced ==
    pc = "returned" /\ result.status = "success" =>
        LET html     == detail_response.text
            data     == result.data
            managers == parse_managers_table(html)
        IN  /\ managers # <<>> =>
                  /\ ManagersKey \in DOMAIN data
                  /\ data[ManagersKey] = managers
            /\ managers = <<>> =>
                  (ManagersKey \in DOMAIN data <=>
                      \E p \in Contributing(html.rows) :
                          LabelAt(html.rows, p) = ManagersKey)
            /\ html.rows = <<StatusRow>> /\ managers = <<>> =>
                  DOMAIN data = {StatusKey}

C21_Witness ==
    /\ pc = "returned"
    /\ result.status = "success"
    /\ detail_response.text.rows = <<StatusRow>>
    /\ detail_response.text.tables = <<>>
    /\ DOMAIN result.data = {StatusKey}
    /\ result.transaction_id = "txn-42"

\* the positions of the tables a selector matches
Matches(tables, selector) == { i \in DOMAIN tables : tables[i][selector] }

\* the table the ordered chain of C22 designates, 0 when no strategy matches
Designated(tables) ==
    IF Matches(tables, "aria") # {} THEN Least(Matches(tables, "aria"))
    ELSE IF Matches(tables, "id") # {} THEN Least(Matches(tables, "id"))
    ELSE IF Matches(tables, "in_div") # {}
         THEN Least(Matches(tables, "in_div"))
    ELSE 0

\* C22: the managers of a Success record are those of the first table
\* matched by aria-describedby; failing that, of the first matched by id;
\* failing that, of the first table in div#managers; when no strategy
\* matches no managers are produced and the run still returns its record.
C22_SelectorChainStopsAtFirstMatch ==
    pc = "returned" /\ result.status = "success" =>
        LET html   == detail_response.text
            chosen == Designated(html.tables)
            labels == { LabelAt(html.rows, p) : p \in Contributing(html.rows) }
        IN  IF chosen # 0 /\ html.tables[chosen].tbody
                 /\ ManagersOfRows(html.tables[chosen].rows) # <<>>
            THEN /\ ManagersKey \in DOMAIN result.data
                 /\ result.data[ManagersKey] =
                       ManagersOfRows(html.tables[chosen].rows)
            ELSE DOMAIN result.data = labels

C22_Witness ==
    /\ pc = "returned"
    /\ result.status = "success"
    /\ detail_response.text.tables = <<EmptyManagersTable, ManagersTable>>
    /\ Designated(detail_response.text.tables) = 2
    /\ ManagersKey \in DOMAIN result.data

\* the run of C22 in which no strategy matches although the page has a table
\* with a manager row
C22_NoMatchReached ==
    /\ pc = "returned"
    /\ result.status = "success"
    /\ detail_response.text.tables = <<PlainTable>>
    /\ ManagersKey \notin DOMAIN result.data

\* the three headers both request functions set, with their fixed values
FormEndpointHeaders ==
    [k \in {"content-type", "priority", "referer"} |->
        CASE k = "content-type" -> "application/x-www-form-urlencoded"
          [] k = "priority"     -> "u=0, i"
          [] k = "referer"      ->
                "https://apps.ilsos.gov/businessentitysearch/businessentitysearch"]

\* C23: every request sent carries the cookies the bootstrap returned and
\* the headers it returned with content-type, priority and referer set to
\* the form-endpoint values and every other header as harvested; the
\* mappings held by the orchestrator stay what Harvest produced, so the
\* detail request carries the credentials of the search request.
C23_RequestsCarryHarvestedCredentials ==
    /\ \A i \in DOMAIN sent :
          /\ sent[i].cookies = cookies.d
          /\ DOMAIN sent[i].headers =
                DOMAIN headers.d \cup DOMAIN FormEndpointHeaders
          /\ \A k \in DOMAIN sent[i].headers :
                sent[i].headers[k] =
                    IF k \in DOMAIN FormEndpointHeaders
                    THEN FormEndpointHeaders[k]
                    ELSE headers.d[k]
    /\ sent # <<>> => headers.d = HarvestedHeaders(frame)
    /\ Len(sent) = 2 =>
          /\ sent[2].cookies = sent[1].cookies
          /\ sent[2].headers = sent[1].headers

C23_Witness ==
    /\ Len(sent) = 2
    /\ response.status_code = 200
    /\ sent[1].method = "search"
    /\ sent[2].method = "getDetails"
    /\ sent[2].cookies = cookies.d
    /\ cookies.d # EmptyDict
    /\ headers.d["referer"] # sent[2].headers["referer"]
    /\ sent[2].headers["origin"] = headers.d["origin"]

\* C24 as stated: whenever Harvest runs the execution context is the
\* top-level page, whatever happened in Token-Inject.
C24_HarvestRunsInTopContext ==
    pc \in {"harvest_cookies", "harvest_headers"} => frame = "top"

\* the bootstrap handed back no cookies or no headers: None or an empty dict
NothingUsable == cookies.d = EmptyDict \/ headers.d = EmptyDict

\* C25: the search request is issued only with a non-empty cookie mapping
\* and a non-empty header mapping; a bootstrap that completed Harvest with
\* zero cookies ends, like a failed bootstrap, in the Error result
\* "Failed to solve captcha and extract cookies/headers" with no request.
C25_EmptyCredentialsAreAFailedBootstrap ==
    /\ pc \in {"search", "detail"} \/ sent # <<>> =>
          /\ ~cookies.isNone /\ cookies.d # EmptyDict
          /\ ~headers.isNone /\ headers.d # EmptyDict
    /\ pc = "returned" /\ NothingUsable =>
          /\ result = [file_number |-> file_number, status |-> "error",
                       error |->
                         "Failed to solve captcha and extract cookies/headers"]
          /\ sent = <<>>
          /\ trace = <<"bootstrap">>

C25_Witness ==
    /\ pc = "returned"
    /\ ~cookies.isNone
    /\ cookies.d = EmptyDict
    /\ ~headers.isNone
    /\ failure = "none"
    /\ result.status = "error"
    /\ sent = <<>>

====
